---- MODULE Spec2Model ----
(***************************************************************************)
(* A model of the collection store built by makeSchema in nerdo/memorydb.  *)
(*                                                                         *)
(* JavaScript objects are modelled as entries of a heap (objs) named by    *)
(* handles, so that "the same object" and "an equal copy" are different    *)
(* things: collection.cache maps identifiers to handles, collection.array  *)
(* is a sequence of handles, and the caller holds handles to the objects   *)
(* it passed in and to the objects it got back.                            *)
(***************************************************************************)
EXTENDS Integers, Sequences, FiniteSets, TLC

VARIABLES
    objs,       \* the heap: handle -> record [id, name]
    cache,      \* collection.cache: identifier -> handle
    array,      \* collection.array: sequence of handles
    held,       \* the array the caller's most recent call returned
    heldFresh,  \* FALSE when that array is the collection.array object itself
    args,       \* the objects the caller passed to its most recent save/load
    saved,      \* history: identifier -> value most recently passed to save
    pc,         \* "ready", "loop" (find is scanning), "returned"
    context,    \* the FindFunctionContext of the running find
    options,    \* the options of the running find
    matcher,    \* the matcher callback of the running find
    stopper,    \* the stopper callback of the running find
    page,       \* the locals of the pageContacts the caller is paging with
    registry,   \* makeMemoryDB: its position, its settings and what it built
    last        \* history: the most recent call, what it was given and met

vars == <<objs, cache, array, held, heldFresh, args, saved, pc, context,
          options, matcher, stopper, page, registry, last>>

-----------------------------------------------------------------------------
(* Bounds and input domains *)

MaxLen == 3
MaxBatch == 2

\* Identifier values (IdTypes = string | number).  "size" is an identifier
\* that is also the name of a property of every Map object.
IdValues == {"a", "b", "size"}

\* Property names found on a Map object (own or inherited), among IdValues.
MapProperties == {"size"}

AttrValues == {"Jane", "Bob"}

\* The models the caller saves.
Models ==
    {[id |-> "a", name |-> "Jane"], [id |-> "a", name |-> "Bob"],
     [id |-> "b", name |-> "Jane"], [id |-> "size", name |-> "Jane"]}

\* The attributes the caller passes to new and create.
Partials == {"Jane"}

Range(s) == {s[i] : i \in DOMAIN s}

SeqsUpTo(S, n) == UNION {[1..k -> S] : k \in 0..n}

\* The argument lists of save and load (...models) and of findById and
\* deleteById (...ids).
ModelLists == SeqsUpTo(Models, MaxBatch)
IdLists == SeqsUpTo(IdValues, MaxBatch)

-----------------------------------------------------------------------------
(* The heap *)

\* The heap is kept compact: the handles in use are 1..Len(objs).
NewHandle(o) == Len(o) + 1

\* clone(x) of @nerdo/utils: a new object equal to x.
clone(o, h) == [objs |-> Append(o, o[h]), ref |-> NewHandle(o)]

\* A new object literal with value r.
Alloc(o, r) == [objs |-> Append(o, r), ref |-> NewHandle(o)]

RECURSIVE AllocAll(_, _)
AllocAll(o, rs) ==
    IF rs = <<>> THEN [objs |-> o, refs |-> <<>>]
    ELSE LET a == Alloc(o, Head(rs))
             rest == AllocAll(a.objs, Tail(rs))
         IN  [objs |-> rest.objs, refs |-> <<a.ref>> \o rest.refs]

-----------------------------------------------------------------------------
(* save / load *)

\* `key in collection.cache` with collection.cache a Map: the `in` operator
\* looks for a property of the Map object, and Map entries are not properties.
KeyIn(key, c) == key \in MapProperties

\* A save that keeps the caller's object instead of a copy of it.
saveEachAliased(st, m) ==
    LET key == st.objs[m].id
        isNew == ~KeyIn(key, st.cache)
        cache1 == (key :> m) @@ st.cache
        array1 == IF isNew THEN Append(st.array, cache1[key]) ELSE st.array
        r == clone(st.objs, cache1[key])
    IN  [objs |-> r.objs, cache |-> cache1, array |-> array1,
         out |-> Append(st.out, r.ref)]

\* A save that returns its copies last input first.
saveEachReversed(st, m) ==
    LET key == st.objs[m].id
        isNew == ~KeyIn(key, st.cache)
        c == clone(st.objs, m)
        cache1 == (key :> c.ref) @@ st.cache
        array1 == IF isNew THEN Append(st.array, cache1[key]) ELSE st.array
        r == clone(c.objs, cache1[key])
    IN  [objs |-> r.objs, cache |-> cache1, array |-> array1,
         out |-> <<r.ref>> \o st.out]

\* One iteration of models.map in save.
saveEach(st, m) ==
    LET key == st.objs[m].id
        isNew == ~KeyIn(key, st.cache)
        c == clone(st.objs, m)
        cache1 == (key :> c.ref) @@ st.cache
        array1 == IF isNew THEN Append(st.array, cache1[key]) ELSE st.array
        r == clone(c.objs, cache1[key])
    IN  [objs |-> r.objs, cache |-> cache1, array |-> array1,
         out |-> Append(st.out, r.ref)]

RECURSIVE saveFrom(_, _)
saveFrom(st, models) ==
    IF models = <<>> THEN st
    ELSE saveFrom(saveEach(st, Head(models)), Tail(models))

\* models.map(...) returns a new array (fresh).
save(o, c, a, models) ==
    LET r == saveFrom([objs |-> o, cache |-> c, array |-> a, out |-> <<>>],
                      models)
    IN  [objs |-> r.objs, cache |-> r.cache, array |-> r.array,
         out |-> r.out, fresh |-> TRUE]

\* A load of its own, which keeps only the first model.
loadFirstOnly(o, c, a, models) ==
    save(o, c, a, IF models = <<>> THEN <<>> ELSE <<Head(models)>>)

\* load: save
load(o, c, a, models) == save(o, c, a, models)

-----------------------------------------------------------------------------
(* getAll, findById, count *)

RECURSIVE cloneEach(_, _)
cloneEach(o, hs) ==
    IF hs = <<>> THEN [objs |-> o, out |-> <<>>]
    ELSE LET c == clone(o, Head(hs))
             rest == cloneEach(c.objs, Tail(hs))
         IN  [objs |-> rest.objs, out |-> <<c.ref>> \o rest.out]

\* A getAll that returns the stored objects themselves.
getAllAliased(o, a) == [objs |-> o, out |-> a, fresh |-> TRUE]

\* clone(collection.array): a new array of new objects.
getAll(o, a) ==
    LET r == cloneEach(o, a)
    IN  [objs |-> r.objs, out |-> r.out, fresh |-> TRUE]

\* A findById that walks the array, so answers in storage order.
findByIdInStorageOrder(o, c, ids) ==
    LET all == [h \in 1..Len(o) |-> h]
        found == SelectSeq(all, LAMBDA h : h \in Range(c) /\ o[h].id \in Range(ids))
        r == cloneEach(o, found)
    IN  [objs |-> r.objs, out |-> r.out, fresh |-> TRUE]

\* ids.reduce(...) from the new array [].
RECURSIVE findByIdFrom(_, _, _, _)
findByIdFrom(o, c, ids, results) ==
    IF ids = <<>> THEN [objs |-> o, out |-> results, fresh |-> TRUE]
    ELSE IF Head(ids) \in DOMAIN c
         THEN LET r == clone(o, c[Head(ids)])
              IN  findByIdFrom(r.objs, c, Tail(ids), Append(results, r.ref))
         ELSE findByIdFrom(o, c, Tail(ids), results)

findById(o, c, ids) == findByIdFrom(o, c, ids, <<>>)

count(a) == Len(a)

-----------------------------------------------------------------------------
(* deleteById *)

\* The first loop of deleteById: collect and unmap.
RECURSIVE deleteFromCache(_, _, _)
deleteFromCache(c, ids, deleted) ==
    IF ids = <<>> THEN [cache |-> c, deleted |-> deleted]
    ELSE LET id == Head(ids)
             d1 == IF id \in DOMAIN c THEN Append(deleted, c[id]) ELSE deleted
             c1 == [k \in (DOMAIN c) \ {id} |-> c[k]]
         IN  deleteFromCache(c1, Tail(ids), d1)

\* Array.prototype.indexOf, 1-based; 0 when there is no match.
IndexOf(s, x) ==
    IF \E i \in DOMAIN s : s[i] = x
    THEN CHOOSE i \in DOMAIN s : s[i] = x /\ \A j \in 1..(i - 1) : s[j] # x
    ELSE 0

\* splice(i, 1)
Splice(s, i) == [j \in 1..(Len(s) - 1) |-> IF j < i THEN s[j] ELSE s[j + 1]]

\* A filter that gives up after the first element it removes.
filterArrayOnce(o, a, remainingIds) ==
    IF \E i \in DOMAIN a : o[a[i]].id \in Range(remainingIds)
    THEN LET i == CHOOSE k \in DOMAIN a :
                      /\ o[a[k]].id \in Range(remainingIds)
                      /\ \A j \in 1..(k - 1) : o[a[j]].id \notin Range(remainingIds)
         IN  SubSeq(a, 1, i - 1) \o SubSeq(a, i + 1, Len(a))
    ELSE a

\* collection.array.filter with the remainingIds bookkeeping.
RECURSIVE filterArray(_, _, _)
filterArray(o, a, remainingIds) ==
    IF a = <<>> THEN <<>>
    ELSE IF remainingIds = <<>> THEN a
    ELSE LET m == Head(a)
             indexOfMatch == IndexOf(remainingIds, o[m].id)
             keep == indexOfMatch = 0
         IN  IF keep
             THEN <<m>> \o filterArray(o, Tail(a), remainingIds)
             ELSE filterArray(o, Tail(a), Splice(remainingIds, indexOfMatch))

deleteById(o, c, a, ids) ==
    IF ids = <<>> THEN [cache |-> c, array |-> a, out |-> <<>>, fresh |-> TRUE]
    ELSE LET d == deleteFromCache(c, ids, <<>>)
         IN  [cache |-> d.cache, array |-> filterArray(o, a, ids),
              out |-> d.deleted, fresh |-> TRUE]

-----------------------------------------------------------------------------
(* Views: what the read operations return, as values *)

ValuesOf(o, hs) == [i \in DOMAIN hs |-> o[hs[i]]]
IdsOf(o, hs) == [i \in DOMAIN hs |-> o[hs[i]].id]

StoreHandles == Range(array) \cup Range(cache)

-----------------------------------------------------------------------------
(* The state machine *)

\* The identifiers in a fixed order, to walk the cache.
IdOrder == <<"a", "b", "size">>

RECURSIVE Dedupe(_, _)
Dedupe(s, seen) ==
    IF s = <<>> THEN <<>>
    ELSE IF Head(s) \in seen THEN Dedupe(Tail(s), seen)
    ELSE <<Head(s)>> \o Dedupe(Tail(s), seen \cup {Head(s)})

CacheSeq(c) ==
    LET keys == SelectSeq(IdOrder, LAMBDA k : k \in DOMAIN c)
    IN  [i \in DOMAIN keys |-> c[keys[i]]]

\* Garbage collection: the objects no reference reaches are dropped and the
\* remaining handles renumbered 1..n in the order array, cache, held, args,
\* results.  Handles are addresses: only their equality is observable.
Compact(o, c, a, h, g, rs) ==
    LET ord == Dedupe(a \o CacheSeq(c) \o h \o g \o rs, {})
        pos(x) == IndexOf(ord, x)
    IN  [objs |-> [i \in DOMAIN ord |-> o[ord[i]]],
         cache |-> [k \in DOMAIN c |-> pos(c[k])],
         array |-> [i \in DOMAIN a |-> pos(a[i])],
         held |-> [i \in DOMAIN h |-> pos(h[i])],
         args |-> [i \in DOMAIN g |-> pos(g[i])],
         results |-> [i \in DOMAIN rs |-> pos(rs[i])]]

\* The next state of the heap and of every reference into it.
Commit(o, c, a, h, g, ctx) ==
    LET n == Compact(o, c, a, h, g, ctx.results)
    IN  /\ objs' = n.objs
        /\ cache' = n.cache
        /\ array' = n.array
        /\ held' = n.held
        /\ args' = n.args
        /\ context' = [ctx EXCEPT !.results = n.results]

\* The context and callbacks when no find is running.
Idle ==
    [results |-> <<>>, index |-> 0, count |-> 0, extra |-> <<>>,
     shared |-> FALSE]
NoOptions == <<>>

\* What getAll and findById would return, as values.
View(o, c, a) == <<ValuesOf(o, a), [k \in DOMAIN c |-> o[c[k]]]>>

\* What the call was given, which of the identifiers it names were keys of
\* the cache when it was made, and whether the call left getAll and findById
\* returning something else (o, c, a: the store when the call returns).
Called(op, req, o, c, a) ==
    [op |-> op, req |-> req, hit |-> Range(req) \cap DOMAIN cache,
     changed |-> View(o, c, a) # View(objs, cache, array),
     wrote |-> "none", disturbed |-> FALSE, calls |-> <<>>,
     given |-> NoOptions, again |-> FALSE, before |-> <<>>]

NoCall ==
    [op |-> "none", req |-> <<>>, hit |-> {}, changed |-> FALSE,
     wrote |-> "none", disturbed |-> FALSE, calls |-> <<>>,
     given |-> NoOptions, again |-> FALSE, before |-> <<>>]

\* No pageContacts is running.
NoPage ==
    [cursor |-> 0, limit |-> 0, cursorEnd |-> 0, first |-> 0,
     pages |-> <<>>, done |-> FALSE]

\* makeMemoryDB has not been called.
NoRegistry ==
    [pc |-> "none", settings |-> [schema |-> <<>>, seeder |-> FALSE],
     schema |-> <<>>, zod |-> <<>>, seeded |-> 0, log |-> <<>>, calls |-> 0,
     on |-> "none"]

Init ==
    /\ objs = <<>>
    /\ cache = <<>>
    /\ array = <<>>
    /\ held = <<>>
    /\ heldFresh = TRUE
    /\ args = <<>>
    /\ saved = <<>>
    /\ pc = "ready"
    /\ context = Idle
    /\ options = NoOptions
    /\ matcher = "none"
    /\ stopper = "none"
    /\ page = NoPage
    /\ registry = NoRegistry
    /\ last = NoCall

\* What the calls of one store's API other than find leave alone.
FindIdle == UNCHANGED <<options, matcher, stopper, page, registry>>

RECURSIVE Record(_, _)
Record(s, rs) ==
    IF rs = <<>> THEN s
    ELSE Record((Head(rs).id :> Head(rs)) @@ s, Tail(rs))

Restrict(f, S) == [k \in (DOMAIN f) \cap S |-> f[k]]

\* The caller builds the models and calls save(...models) or load(...models).
SaveCall(op, models) ==
    /\ pc = "ready"
    /\ Len(array) + Len(models) <= MaxLen
    /\ LET in == AllocAll(objs, models)
           r == IF op = "load" THEN load(in.objs, cache, array, in.refs)
                ELSE save(in.objs, cache, array, in.refs)
       IN  /\ Commit(r.objs, r.cache, r.array, r.out, in.refs, Idle)
           /\ heldFresh' = r.fresh
           /\ last' = Called(op, [i \in DOMAIN models |-> models[i].id],
                             r.objs, r.cache, r.array)
    /\ saved' = Record(saved, models)
    /\ pc' = "returned"
    /\ FindIdle

Save == pc = "ready" /\ \E models \in ModelLists : SaveCall("save", models)

Load == pc = "ready" /\ \E models \in ModelLists : SaveCall("load", models)

\* A new that builds its result in the oldest object of the heap.
newInPlace(o, p, id) ==
    IF o = <<>> THEN Alloc(o, [id |-> id, name |-> p])
    ELSE [objs |-> [o EXCEPT ![1] = [id |-> id, name |-> p]], ref |-> 1]

\* new(p): the partial's attributes and an identifier from schema.id.next.
new(o, p, id) == Alloc(o, [id |-> id, name |-> p])

\* The attribute of a record that has none (new() and new({})).
Absent == "undefined"

\* new(p), id being what schema.id.next returns.
NewCall(p, id) ==
    /\ pc = "ready"
    /\ LET r == new(objs, p, id)
       IN  /\ Commit(r.objs, cache, array, <<r.ref>>, <<>>, Idle)
           /\ heldFresh' = TRUE
           /\ last' = Called("new", <<id>>, r.objs, cache, array)
    /\ pc' = "returned"
    /\ UNCHANGED saved
    /\ FindIdle

New == \E p \in Partials \cup {Absent}, id \in IdValues : NewCall(p, id)

RECURSIVE newEach(_, _, _)
newEach(o, partials, ids) ==
    IF partials = <<>> THEN [objs |-> o, refs |-> <<>>]
    ELSE LET n == new(o, Head(partials), Head(ids))
             rest == newEach(n.objs, Tail(partials), Tail(ids))
         IN  [objs |-> rest.objs, refs |-> <<n.ref>> \o rest.refs]

\* create(...partials) = save(...partials.map(new))
create(o, c, a, partials, ids) ==
    LET n == newEach(o, partials, ids)
    IN  save(n.objs, c, a, n.refs)

\* create(...partials), ids being what schema.id.next returns, call by call.
CreateCall(partials, ids) ==
    /\ pc = "ready"
    /\ Len(array) + Len(partials) <= MaxLen
    /\ LET r == create(objs, cache, array, partials, ids)
       IN  /\ Commit(r.objs, r.cache, r.array, r.out, <<>>, Idle)
           /\ heldFresh' = r.fresh
           /\ last' = Called("create", ids, r.objs, r.cache, r.array)
    /\ saved' = Record(saved, [i \in DOMAIN partials |->
                                 [id |-> ids[i], name |-> partials[i]]])
    /\ pc' = "returned"
    /\ FindIdle

Create ==
    /\ pc = "ready"
    /\ \E k \in 0..MaxBatch :
         \E partials \in [1..k -> Partials], ids \in [1..k -> IdValues] :
            CreateCall(partials, ids)

GetAll ==
    /\ pc = "ready"
    /\ LET r == getAll(objs, array)
       IN  /\ Commit(r.objs, cache, array, r.out, <<>>, Idle)
           /\ heldFresh' = r.fresh
           /\ last' = Called("getAll", <<>>, r.objs, cache, array)
    /\ pc' = "returned"
    /\ UNCHANGED saved
    /\ FindIdle

FindByIdCall(ids) ==
    /\ pc = "ready"
    /\ LET r == findById(objs, cache, ids)
       IN  /\ Commit(r.objs, cache, array, r.out, <<>>, Idle)
           /\ heldFresh' = r.fresh
           /\ last' = Called("findById", ids, r.objs, cache, array)
    /\ pc' = "returned"
    /\ UNCHANGED saved
    /\ FindIdle

FindById == pc = "ready" /\ \E ids \in IdLists : FindByIdCall(ids)

DeleteCall(ids) ==
    /\ pc = "ready"
    /\ LET r == deleteById(objs, cache, array, ids)
       IN  /\ Commit(objs, r.cache, r.array, r.out, <<>>, Idle)
           /\ heldFresh' = r.fresh
           /\ last' = Called("deleteById", ids, objs, r.cache, r.array)
           /\ saved' = Restrict(saved, DOMAIN r.cache)
    /\ pc' = "returned"
    /\ FindIdle

DeleteById == pc = "ready" /\ \E ids \in IdLists : DeleteCall(ids)

-----------------------------------------------------------------------------
(* find *)

\* The caller's code writes an attribute of object h.
Write(o, h, v) == [o EXCEPT ![h].name = v]

Max(x, y) == IF x >= y THEN x ELSE y
Min(x, y) == IF x <= y THEN x ELSE y

\* options?.reverse
Reverse(opts) == "reverse" \in DOMAIN opts /\ opts.reverse

\* options?.startingIndex || dflt : an absent index and the index 0 are falsy.
StartingIndexOr(opts, dflt) ==
    IF "startingIndex" \in DOMAIN opts /\ opts.startingIndex # 0
    THEN opts.startingIndex
    ELSE dflt

clampStart(a, value) == Max(0, Min(Len(a) - 1, value))

\* A start that takes no notice of options.startingIndex.
LoopStartAtEnds(opts, a) ==
    IF Reverse(opts) THEN clampStart(a, Len(a) - 1) ELSE clampStart(a, 0)

\* loop.start
LoopStart(opts, a) ==
    IF Reverse(opts)
    THEN clampStart(a, StartingIndexOr(opts, Len(a) - 1))
    ELSE clampStart(a, StartingIndexOr(opts, 0))

\* A loop condition that ends a forward scan one position early.
LoopConditionShort(opts, ctx, a) ==
    IF Reverse(opts) THEN ctx.index > 0 ELSE ctx.index < Len(a) - 1

\* A loop condition that lets a reverse scan run at index 0.
LoopConditionInclusive(opts, ctx, a) ==
    IF Reverse(opts) THEN ctx.index >= 0 ELSE ctx.index < Len(a)

\* loop.condition()
LoopCondition(opts, ctx, a) ==
    IF Reverse(opts) THEN ctx.index > 0 ELSE ctx.index < Len(a)

\* An iterate that leaves context.index where it is.
LoopIterateStuck(opts, ctx) == ctx

\* loop.iterate()
LoopIterate(opts, ctx) ==
    IF Reverse(opts) THEN [ctx EXCEPT !.index = @ - 1]
    ELSE [ctx EXCEPT !.index = @ + 1]

\* A context whose extra is the caller's options.extra object itself.
InitialExtraAliased(opts) ==
    IF "extra" \in DOMAIN opts
    THEN [extra |-> opts.extra, shared |-> TRUE]
    ELSE [extra |-> <<>>, shared |-> FALSE]

\* options?.extra ? clone(options.extra) : {}
\* shared: context.extra and options.extra are one object, so that a write
\* to the one is a write to the other.  A clone is an object of its own.
InitialExtra(opts) ==
    IF "extra" \in DOMAIN opts
    THEN [extra |-> opts.extra, shared |-> FALSE]
    ELSE [extra |-> <<>>, shared |-> FALSE]

\* The matcher callbacks callers pass: what the call does to the record it is
\* handed and to context.extra, and what it returns.
\*   "all"    (m, context) => true
\*   "nobody" (m, context) => false
\*   "jane"   (m, context) => m.name === 'Jane'
\*   "rename" (m, context) => { m.name = 'Bob'; return true }
\*   "third"  (m, context) => { if (m.name === 'Jane')
\*            context.extra.numMatches++; return context.extra.numMatches === 3 }
\*            (its callers pass options.extra = { numMatches: 0 })
\*   "page"   (_model, context) => context.index < cursorEnd
\*   "saver"  (m, context) => { if (store.count() === context.count)
\*            store.save({ id: 'b', name: 'Jane' }); return true }
MatcherCall(mk, o, m, ctx) ==
    CASE mk = "all" -> [objs |-> o, extra |-> ctx.extra, match |-> TRUE]
      [] mk = "nobody" -> [objs |-> o, extra |-> ctx.extra, match |-> FALSE]
      [] mk = "jane" ->
            [objs |-> o, extra |-> ctx.extra, match |-> o[m].name = "Jane"]
      [] mk = "rename" ->
            [objs |-> Write(o, m, "Bob"), extra |-> ctx.extra, match |-> TRUE]
      [] mk = "third" ->
            LET e == IF o[m].name = "Jane"
                     THEN [ctx.extra EXCEPT !.numMatches = @ + 1]
                     ELSE ctx.extra
            IN  [objs |-> o, extra |-> e, match |-> e.numMatches = 3]
      [] mk = "saver" -> [objs |-> o, extra |-> ctx.extra, match |-> TRUE]
      [] mk = "page" ->
            [objs |-> o, extra |-> ctx.extra,
             match |-> ctx.index < page.cursorEnd]

\* The models the matcher saves into the store it is scanning.
MatcherSaves(mk, ctx, a) ==
    IF mk = "saver" /\ count(a) = ctx.count
    THEN <<[id |-> "b", name |-> "Jane"]>>
    ELSE <<>>

\* The stopper callbacks callers pass.
\*   "never" (context) => false
\*   "found" (context) => context.results.length > 0
\*   "full"  (context) => context.results.length === limit
StopperCall(sk, ctx) ==
    CASE sk = "never" -> FALSE
      [] sk = "found" -> Len(ctx.results) > 0
      [] sk = "full" -> Len(ctx.results) = page.limit

\* The record find hands to the matcher: collection.array[context.index].
Visited(o, a, ctx) == a[ctx.index + 1]

\* The log entries of one pass: the read of collection.array[context.index],
\* the matcher's call and what it returned, the stopper's call, what it
\* returned and the number of results it was shown.
VisitEvent(i) == [ev |-> "visit", index |-> i, ret |-> FALSE, results |-> 0]
MatcherEvent(i, ret) ==
    [ev |-> "matcher", index |-> i, ret |-> ret, results |-> 0]
StopperEvent(ctx, ret) ==
    [ev |-> "stopper", index |-> ctx.index, ret |-> ret,
     results |-> Len(ctx.results)]

\* A loop body that pushes the record whatever the matcher returned.
findBodyPushAll(o, a, ctx, mk, sk) ==
    LET m == Visited(o, a, ctx)
        called == MatcherCall(mk, o, m, ctx)
        c == clone(called.objs, m)
        ctx1 == [ctx EXCEPT !.extra = called.extra, !.results = Append(@, c.ref)]
        stop == StopperCall(sk, ctx1)
    IN  [objs |-> c.objs,
         context |-> ctx1,
         break |-> stop,
         calls |-> <<VisitEvent(ctx.index),
                     MatcherEvent(ctx.index, called.match),
                     StopperEvent(ctx1, stop)>>]

\* A loop body that calls the stopper before the push.
findBodyStopperFirst(o, a, ctx, mk, sk) ==
    LET m == Visited(o, a, ctx)
        called == MatcherCall(mk, o, m, ctx)
        ctx0 == [ctx EXCEPT !.extra = called.extra]
        stop == StopperCall(sk, ctx0)
        c == clone(called.objs, m)
        ctx1 == [ctx0 EXCEPT !.results = IF called.match THEN Append(@, c.ref)
                                         ELSE @]
    IN  [objs |-> IF called.match THEN c.objs ELSE called.objs,
         context |-> ctx1,
         break |-> stop,
         calls |-> <<VisitEvent(ctx.index),
                     MatcherEvent(ctx.index, called.match),
                     StopperEvent(ctx0, stop)>>]

\* One pass through the body of the for loop.
findBody(o, a, ctx, mk, sk) ==
    LET m == Visited(o, a, ctx)
        called == MatcherCall(mk, o, m, ctx)
        c == clone(called.objs, m)
        ctx1 == [ctx EXCEPT !.extra = called.extra,
                            !.results = IF called.match THEN Append(@, c.ref)
                                        ELSE @]
        stop == StopperCall(sk, ctx1)
    IN  [objs |-> IF called.match THEN c.objs ELSE called.objs,
         context |-> ctx1,
         break |-> stop,
         calls |-> <<VisitEvent(ctx.index),
                     MatcherEvent(ctx.index, called.match),
                     StopperEvent(ctx1, stop)>>]

\* const context = { results: [], options, index: loop.start,
\*                   count: collection.array.length, extra: ... }
NewContext(opts, a) ==
    [results |-> <<>>, index |-> LoopStart(opts, a), count |-> Len(a),
     extra |-> InitialExtra(opts).extra, shared |-> InitialExtra(opts).shared]

\* find(matcher, stopper, options) up to the first test of the loop condition.
FindCall(opts, mk, sk) ==
    /\ pc = "ready"
    /\ Commit(objs, cache, array, <<>>, <<>>, NewContext(opts, array))
    /\ options' = opts
    /\ matcher' = mk
    /\ stopper' = sk
    /\ last' = [Called("find", <<>>, objs, cache, array) EXCEPT !.given = opts]
    /\ pc' = "loop"
    /\ UNCHANGED <<saved, heldFresh, page, registry>>

\* One iteration: the matcher and what it saves, the push, the stopper, and
\* then either the break and the return, or loop.iterate().
FindVisit ==
    /\ pc = "loop"
    /\ LoopCondition(options, context, array)
    /\ LET r == findBody(objs, array, context, matcher, stopper)
           models == MatcherSaves(matcher, context, array)
           in == AllocAll(r.objs, models)
           s == save(in.objs, cache, array, in.refs)
           d == last.disturbed \/ View(s.objs, s.cache, s.array) # View(objs, cache, array)
       IN  /\ last' = [last EXCEPT !.disturbed = d, !.calls = @ \o r.calls]
           /\ saved' = Record(saved, models)
           /\ IF r.break
              THEN /\ Commit(s.objs, s.cache, s.array, r.context.results, <<>>,
                             Idle)
                   /\ pc' = "returned"
              ELSE /\ Commit(s.objs, s.cache, s.array, <<>>, <<>>,
                             LoopIterate(options, r.context))
                   /\ pc' = "loop"
           /\ options' = IF context.shared
                         THEN [options EXCEPT !.extra = r.context.extra]
                         ELSE options
    /\ UNCHANGED <<matcher, stopper, heldFresh, page, registry>>

\* The loop condition fails: return context.results.  The callbacks and the
\* options stay the caller's until it lets go of them.
FindExit ==
    /\ pc = "loop"
    /\ ~LoopCondition(options, context, array)
    /\ Commit(objs, cache, array, context.results, <<>>, Idle)
    /\ pc' = "returned"
    /\ FindIdle
    /\ UNCHANGED <<saved, heldFresh, last>>

\* The find calls of the callers modelled here.
Find == \E mk \in {"all", "rename"} : FindCall(NoOptions, mk, "never")

-----------------------------------------------------------------------------
(* The caller's own code *)

\* The caller's code writes another value to an attribute of every object
\* of hs.
WriteAll(o, hs) ==
    [h \in DOMAIN o |->
        IF h \in Range(hs)
        THEN [o[h] EXCEPT !.name = CHOOSE v \in AttrValues : v # o[h].name]
        ELSE o[h]]

\* After the caller's write: who wrote, and whether getAll and findById now
\* return something else (o, a: the heap and the array after the write).
\* The caller lets go of what it wrote to; what the call was given is
\* forgotten.
Wrote(who, o, a) ==
    /\ Commit(o, cache, a, <<>>, <<>>, Idle)
    /\ last' = [last EXCEPT
                  !.req = <<>>,
                  !.hit = {},
                  !.calls = <<>>,
                  !.given = NoOptions,
                  !.again = FALSE,
                  !.before = <<>>,
                  !.wrote = who,
                  !.disturbed = View(o, cache, a) # View(objs, cache, array)]
    /\ options' = NoOptions
    /\ matcher' = "none"
    /\ stopper' = "none"
    /\ UNCHANGED <<pc, saved, heldFresh, page, registry>>

\* The caller writes to the objects it got back from its last call.
MutateHeld ==
    /\ pc = "returned"
    /\ last.wrote = "none"
    /\ held # <<>>
    /\ Wrote("held", WriteAll(objs, held), array)

\* The caller writes to the objects it passed to its last save or load.
MutateArg ==
    /\ pc = "returned"
    /\ last.wrote = "none"
    /\ args # <<>>
    /\ Wrote("args", WriteAll(objs, args), array)

Front(s) == SubSeq(s, 1, Len(s) - 1)

\* The caller removes the last element of the array its last call returned
\* (returned.pop()).
PopHeld ==
    /\ pc = "returned"
    /\ last.wrote = "none"
    /\ held # <<>>
    /\ Wrote("array", objs, IF heldFresh THEN array ELSE Front(array))

\* The caller lets go of everything its last call gave it.
Release ==
    /\ pc = "returned"
    /\ Commit(objs, cache, array, <<>>, <<>>, Idle)
    /\ heldFresh' = TRUE
    /\ last' = NoCall
    /\ pc' = "ready"
    /\ options' = NoOptions
    /\ matcher' = "none"
    /\ stopper' = "none"
    /\ page' = NoPage
    /\ UNCHANGED <<saved, registry>>

Next ==
    \/ Save
    \/ Load
    \/ New
    \/ Create
    \/ GetAll
    \/ FindById
    \/ DeleteById
    \/ Find
    \/ FindVisit
    \/ FindExit
    \/ MutateHeld
    \/ MutateArg
    \/ PopHeld
    \/ Release

Spec == Init /\ [][Next]_vars

-----------------------------------------------------------------------------
(* find with every option, over stores built by single saves *)

\* options.startingIndex: below 0, inside the array, at and past its end.
StartingIndexes == -1..MaxLen

\* The options objects callers pass, the absent one included.
FindOptions ==
    {NoOptions}
        \cup {[reverse |-> b] : b \in BOOLEAN}
        \cup {[startingIndex |-> i] : i \in StartingIndexes}
        \cup {[reverse |-> b, startingIndex |-> i] :
                 b \in BOOLEAN, i \in StartingIndexes}

\* Callbacks that write neither the record, nor the store, nor context.index.
Matchers == {"all", "nobody", "jane"}
Stoppers == {"never", "found"}

SaveOne == pc = "ready" /\ \E m \in Models : SaveCall("save", <<m>>)

FindWith ==
    \E opts \in FindOptions, mk \in Matchers, sk \in Stoppers :
        FindCall(opts, mk, sk)

\* The options of the callers whose callbacks keep a counter in
\* context.extra: const options = { extra: { numMatches: 0 } }
CountingOptions ==
    {[extra |-> [numMatches |-> 0]],
     [extra |-> [numMatches |-> 0], reverse |-> TRUE]}

\* find(matcher, stopper, options) with the counting matcher.
FindNth ==
    \E opts \in CountingOptions, sk \in Stoppers : FindCall(opts, "third", sk)

\* The storage being what it was before the first call, the caller keeps
\* the values of the first result and calls find again with the same
\* matcher, the same stopper and the same options object.
FindAgain ==
    /\ pc = "returned"
    /\ last.op = "find"
    /\ last.wrote = "none"
    /\ ~last.disturbed
    /\ ~last.again
    /\ Commit(objs, cache, array, <<>>, <<>>, NewContext(options, array))
    /\ last' = [Called("find", <<>>, objs, cache, array) EXCEPT
                  !.given = options,
                  !.again = TRUE,
                  !.before = ValuesOf(objs, held)]
    /\ pc' = "loop"
    /\ UNCHANGED <<options, matcher, stopper, saved, heldFresh, page, registry>>

\* find with a matcher that saves a record into the store being scanned.
FindSaving ==
    /\ Len(array) < MaxLen
    /\ \E opts \in {NoOptions, [reverse |-> TRUE]}, sk \in Stoppers :
          FindCall(opts, "saver", sk)

\* const a = getAll(); const b = getAll(): the caller keeps the first result
\* (in args) and calls getAll again.
GetAllAgain ==
    /\ pc = "returned"
    /\ last.op = "getAll"
    /\ last.wrote = "none"
    /\ ~last.again
    /\ LET r == getAll(objs, array)
       IN  /\ Commit(r.objs, cache, array, r.out, held, Idle)
           /\ heldFresh' = heldFresh /\ r.fresh
           /\ last' = [Called("getAll", <<>>, r.objs, cache, array) EXCEPT
                         !.again = TRUE]
    /\ pc' = "returned"
    /\ UNCHANGED saved
    /\ FindIdle

FindNext ==
    \/ SaveOne
    \/ GetAll
    \/ GetAllAgain
    \/ FindById
    \/ FindWith
    \/ FindNth
    \/ FindSaving
    \/ FindAgain
    \/ FindVisit
    \/ FindExit
    \/ Release

FindSpec == Init /\ [][FindNext]_vars

\* find with callbacks that write neither the store nor context.index.
ScanNext ==
    \/ SaveOne
    \/ FindWith
    \/ FindVisit
    \/ FindExit
    \/ Release

\* A find that has been called runs on: its loop is synchronous code, and
\* nothing else runs until it returns.  This is weak fairness of the loop's
\* step, WF_vars(FindVisit \/ FindExit), with its two parts written as the
\* predicates they amount to under ScanNext: while pc = "loop" one of
\* FindVisit and FindExit is enabled (their guards are loop.condition() and
\* its negation) and no other action is, so the step is enabled exactly
\* when pc = "loop", and a step taken there is the loop's.
LoopRuns == []<>(pc # "loop") \/ []<><<pc = "loop">>_vars

ScanSpec ==
    /\ Init
    /\ [][ScanNext]_vars
    /\ LoopRuns

-----------------------------------------------------------------------------
(* Pagination with find: pageContacts of the README *)

\* The page sizes callers ask for, one larger than any store included.
Limits == 1..(MaxLen + 1)

\* The first cursors callers pass: 0 <= cursor < count(), and 0 for an empty
\* store.
Cursors(a) == 0..Max(Len(a) - 1, 0)

\* const cursorEnd = cursor + limit
\* const slice = find(matcher, stopper, { startingIndex: cursor })
pageContacts(cursor, limit) ==
    /\ Commit(objs, cache, array, <<>>, <<>>,
              NewContext([startingIndex |-> cursor], array))
    /\ options' = [startingIndex |-> cursor]
    /\ matcher' = "page"
    /\ stopper' = "full"
    /\ last' = [Called("find", <<>>, objs, cache, array) EXCEPT
                  !.given = [startingIndex |-> cursor]]
    /\ pc' = "loop"
    /\ UNCHANGED <<saved, heldFresh, registry>>

\* The caller asks for its first page.
PageContacts ==
    /\ pc = "ready"
    /\ \E cursor \in Cursors(array), limit \in Limits :
          /\ page' = [cursor |-> cursor, limit |-> limit,
                      cursorEnd |-> cursor + limit, first |-> cursor,
                      pages |-> <<>>, done |-> FALSE]
          /\ pageContacts(cursor, limit)

\* const nextCursor = cursor + slice.length < count()
\*                      ? cursor + slice.length : void 0
\* The caller keeps the slice and asks for the page at nextCursor, or stops
\* when there is none.
Advance ==
    /\ pc = "returned"
    /\ last.op = "find"
    /\ matcher = "page"
    /\ ~page.done
    /\ LET nextCursor == page.cursor + Len(held)
           pages == page.pages \o ValuesOf(objs, held)
       IN  IF nextCursor < count(array)
           THEN /\ page' = [page EXCEPT !.cursor = nextCursor,
                                        !.cursorEnd = nextCursor + page.limit,
                                        !.pages = pages]
                /\ pageContacts(nextCursor, page.limit)
           ELSE /\ page' = [page EXCEPT !.pages = pages, !.done = TRUE]
                /\ UNCHANGED <<objs, cache, array, held, heldFresh, args,
                               saved, pc, context, options, matcher, stopper,
                               registry, last>>

PageNext ==
    \/ SaveOne
    \/ PageContacts
    \/ FindVisit
    \/ FindExit
    \/ Advance
    \/ Release

PageSpec == Init /\ [][PageNext]_vars

-----------------------------------------------------------------------------
(* makeMemoryDB: the registry of stores and the seeder *)

\* The calls the seeder and the caller make on the stores of one registry.
MaxCalls == 2

\* The names settings.schema declares.
EntityNames == {"contact", "address"}

\* What settings.schema declares under a name:
\*   "object"          z.object({...})
\*   "declared"        Schema.declare({ shape: z.object({...}), id })
\*   "scalar"          z.string(), z.number(), z.any(), ...
\*   "declaredScalar"  Schema.declare({ shape: z.string(), id })
Declarations == {"object", "declared", "scalar", "declaredScalar"}

\* Object.entries(settings.schema): the declarations in insertion order.
SchemaEntries ==
    {<<>>}
        \cup {<<[name |-> n, declared |-> d]>> :
                 n \in EntityNames, d \in Declarations}
        \cup UNION {{<<[name |-> n1, declared |-> d1],
                         [name |-> n2, declared |-> d2]>> :
                          n2 \in EntityNames \ {n1},
                          d1 \in Declarations, d2 \in Declarations} :
                     n1 \in EntityNames}

\* schema.shape, schema being the declaration itself or what Schema.declare
\* makes of it.
ShapeOf(declared) ==
    IF declared \in {"object", "declared"} THEN "ZodObject" ELSE "ZodType"

\* schema.shape instanceof SchemaBaseClass
IsObjectShape(declared) == ShapeOf(declared) = "ZodObject"

\* const collection = { cache: new Map(), array: [] }
EmptyStore == [objs |-> <<>>, cache |-> <<>>, array |-> <<>>]

\* A makeSchema that keeps the shape of a declaration it builds no store for.
RECURSIVE makeSchemaKeepingShapes(_)
makeSchemaKeepingShapes(entries) ==
    IF entries = <<>> THEN [schema |-> <<>>, zod |-> <<>>]
    ELSE LET result == makeSchemaKeepingShapes(Front(entries))
             e == entries[Len(entries)]
         IN  [schema |-> IF IsObjectShape(e.declared)
                         THEN (e.name :> EmptyStore) @@ result.schema
                         ELSE result.schema,
              zod |-> (e.name :> ShapeOf(e.declared)) @@ result.zod]

\* makeSchema: Object.entries(settings.schema).reduce(...), from
\* { schema: {}, zod: {} }.
RECURSIVE makeSchema(_)
makeSchema(entries) ==
    IF entries = <<>> THEN [schema |-> <<>>, zod |-> <<>>]
    ELSE LET result == makeSchema(Front(entries))
             e == entries[Len(entries)]
         IN  IF ~IsObjectShape(e.declared) THEN result
             ELSE [schema |-> (e.name :> EmptyStore) @@ result.schema,
                   zod |-> (e.name :> ShapeOf(e.declared)) @@ result.zod]

\* The part of the state that belongs to the one store of the other
\* specifications.
OneStore ==
    UNCHANGED <<objs, cache, array, held, heldFresh, args, saved, pc, context,
                options, matcher, stopper, page, last>>

\* makeMemoryDB(settings) up to the call of the seeder, or to its return
\* when there is none.
MakeMemoryDB ==
    /\ registry.pc = "none"
    /\ \E entries \in SchemaEntries, seeder \in BOOLEAN :
          LET r == makeSchema(entries)
          IN  registry' =
                [pc |-> IF seeder THEN "seeder" ELSE "returned",
                 settings |-> [schema |-> entries, seeder |-> seeder],
                 schema |-> r.schema,
                 zod |-> r.zod,
                 seeded |-> IF seeder THEN 1 ELSE 0,
                 log |-> <<>>,
                 calls |-> 0,
                 on |-> "none"]
    /\ OneStore

\* The store after a call, its heap holding what the store refers to.
Kept(o, c, a) ==
    LET n == Compact(o, c, a, <<>>, <<>>, <<>>)
    IN  [objs |-> n.objs, cache |-> n.cache, array |-> n.array]

\* db.schema[name].load(...models)
StoreLoad(s, models) ==
    LET in == AllocAll(s.objs, models)
        r == load(in.objs, s.cache, s.array, in.refs)
    IN  Kept(r.objs, r.cache, r.array)

\* db.schema[name].create(...partials)
StoreCreate(s, partials, ids) ==
    LET r == create(s.objs, s.cache, s.array, partials, ids)
    IN  Kept(r.objs, r.cache, r.array)

\* db.schema[name].deleteById(...ids)
StoreDelete(s, ids) ==
    LET r == deleteById(s.objs, s.cache, s.array, ids)
    IN  Kept(s.objs, r.cache, r.array)

\* find(matcher, stopper, options) from the first test of the loop condition
\* to its return.
RECURSIVE findFrom(_, _, _, _, _, _)
findFrom(o, a, ctx, opts, mk, sk) ==
    IF ~LoopCondition(opts, ctx, a) THEN [objs |-> o, results |-> ctx.results]
    ELSE LET r == findBody(o, a, ctx, mk, sk)
         IN  IF r.break THEN [objs |-> r.objs, results |-> r.context.results]
             ELSE findFrom(r.objs, a, LoopIterate(opts, r.context),
                           opts, mk, sk)

\* db.schema[name].find(matcher, stopper, options)
StoreFind(s, opts, mk, sk) ==
    LET r == findFrom(s.objs, s.array, NewContext(opts, s.array), opts, mk, sk)
    IN  Kept(r.objs, s.cache, s.array)

\* A registry whose apis all work on one collection.
AppliedToShared(reg, name, s) ==
    [reg EXCEPT !.schema = [n \in DOMAIN @ |-> s], !.on = name]

\* The registry after a call of an operation of db.schema[name] that left
\* its collection as s: the api of an entity closes over the collection
\* made for that entity, and on no other.
Applied(reg, name, s) == [reg EXCEPT !.schema[name] = s, !.on = name]

\* The seeder loads a record into one of the stores.
SeederLoad ==
    /\ registry.pc = "seeder"
    /\ Len(registry.log) < MaxCalls
    /\ \E name \in DOMAIN registry.schema, m \in Models :
          registry' =
            [Applied(registry, name,
                     StoreLoad(registry.schema[name], <<m>>)) EXCEPT
               !.log = Append(@, [name |-> name, record |-> m])]
    /\ OneStore

\* The seeder creates a record in one of the stores, id being what
\* schema.id.next returns.
SeederCreate ==
    /\ registry.pc = "seeder"
    /\ Len(registry.log) < MaxCalls
    /\ \E name \in DOMAIN registry.schema, p \in Partials, id \in IdValues :
          registry' =
            [Applied(registry, name,
                     StoreCreate(registry.schema[name], <<p>>, <<id>>)) EXCEPT
               !.log = Append(@, [name |-> name,
                                  record |-> [id |-> id, name |-> p]])]
    /\ OneStore

\* settings.seeder(db) returns, and makeMemoryDB returns db.
SeederReturn ==
    /\ registry.pc = "seeder"
    /\ registry' = [registry EXCEPT !.pc = "returned"]
    /\ OneStore

\* The caller saves into, deletes from, and scans the stores of the
\* registry it was given.
StoreCall ==
    /\ registry.pc = "returned"
    /\ Len(registry.log) + registry.calls < MaxCalls
    /\ \E name \in DOMAIN registry.schema :
          LET s == registry.schema[name]
          IN  \/ \E m \in Models :
                    registry' = [Applied(registry, name, StoreLoad(s, <<m>>))
                                   EXCEPT !.calls = @ + 1]
              \/ \E id \in IdValues :
                    registry' = [Applied(registry, name, StoreDelete(s, <<id>>))
                                   EXCEPT !.calls = @ + 1]
              \/ \E mk \in {"all", "rename"} :
                    registry' = [Applied(registry, name,
                                         StoreFind(s, NoOptions, mk, "never"))
                                   EXCEPT !.calls = @ + 1]
    /\ OneStore

RegistryNext ==
    \/ MakeMemoryDB
    \/ SeederLoad
    \/ SeederCreate
    \/ SeederReturn
    \/ StoreCall

RegistrySpec == Init /\ [][RegistryNext]_vars

-----------------------------------------------------------------------------
(* Batches of saves and deletes *)

\* The caller passes the objects of its last save to save once more.
SaveAgain ==
    /\ pc = "returned"
    /\ last.op = "save"
    /\ last.wrote = "none"
    /\ ~last.again
    /\ args # <<>>
    /\ Len(array) + Len(args) <= MaxLen
    /\ LET r == save(objs, cache, array, args)
       IN  /\ Commit(r.objs, r.cache, r.array, r.out, args, Idle)
           /\ heldFresh' = r.fresh
           /\ last' = [Called("save", IdsOf(objs, args),
                              r.objs, r.cache, r.array) EXCEPT
                         !.again = TRUE,
                         !.before = View(objs, cache, array)]
    /\ saved' = Record(saved, ValuesOf(objs, args))
    /\ pc' = "returned"
    /\ FindIdle

\* store.save(r); const d = store.deleteById(r.id)
SaveThenDelete ==
    /\ pc = "ready"
    /\ Len(array) < MaxLen
    /\ \E m \in Models :
          LET in == Alloc(objs, m)
              s == save(in.objs, cache, array, <<in.ref>>)
              d == deleteById(s.objs, s.cache, s.array, <<m.id>>)
          IN  /\ Commit(s.objs, d.cache, d.array, d.out, <<in.ref>>, Idle)
              /\ heldFresh' = d.fresh
              /\ last' = Called("save, deleteById", <<m.id>>,
                                s.objs, d.cache, d.array)
              /\ saved' = Restrict(Record(saved, <<m>>), DOMAIN d.cache)
    /\ pc' = "returned"
    /\ FindIdle

\* store.deleteById(r.id); store.save(r), r's identifier being stored.
DeleteThenSave ==
    /\ pc = "ready"
    /\ \E m \in Models :
          /\ m.id \in DOMAIN cache
          /\ LET d == deleteById(objs, cache, array, <<m.id>>)
                 in == Alloc(objs, m)
                 s == save(in.objs, d.cache, d.array, <<in.ref>>)
             IN  /\ Commit(s.objs, s.cache, s.array, s.out, <<in.ref>>, Idle)
                 /\ heldFresh' = s.fresh
                 /\ last' = Called("deleteById, save", <<m.id>>,
                                   s.objs, s.cache, s.array)
          /\ saved' = Record(saved, <<m>>)
    /\ pc' = "returned"
    /\ FindIdle

BatchNext ==
    \/ Save
    \/ SaveAgain
    \/ SaveThenDelete
    \/ DeleteThenSave
    \/ DeleteById
    \/ Release

BatchSpec == Init /\ [][BatchNext]_vars

-----------------------------------------------------------------------------
(* The claims *)

Ids(a) == {objs[a[i]].id : i \in DOMAIN a}

\* C1: the identifier-to-record mapping and the ordered sequence hold the
\* same set of identifiers, and no identifier occurs twice in the sequence.
MappingMatchesSequence ==
    /\ Ids(array) = DOMAIN cache
    /\ \A i, j \in DOMAIN array :
         objs[array[i]].id = objs[array[j]].id => i = j

\* C2: saving a record whose identifier is already stored changes neither
\* count() nor the order of the identifiers of getAll(), and getAll() has the
\* new attributes at that identifier's position.
UpdateKeepsOrder ==
    [][\A m \in Models :
         (SaveCall("save", <<m>>) /\ m.id \in DOMAIN cache) =>
            /\ count(array') = count(array)
            /\ IdsOf(objs', array') = IdsOf(objs, array)
            /\ ValuesOf(objs', array') =
                 [i \in DOMAIN array |->
                    IF objs[array[i]].id = m.id THEN m ELSE objs[array[i]]]
      ]_vars

ReturnsCopies == {"getAll", "save", "load", "create", "findById", "find"}

\* C3: the array returned by getAll, save, load, create, findById or find
\* is not the store's array and none of its records is an object of the
\* store, and a write to the array or to one of the records leaves what
\* getAll and findById return as it was.
OutputIsolation ==
    (pc = "returned" /\ last.op \in ReturnsCopies) =>
        /\ heldFresh
        /\ Range(held) \cap StoreHandles = {}
        /\ last.wrote \in {"held", "array"} => ~last.disturbed

OutputIsolationWitness ==
    /\ last.op = "getAll"
    /\ last.wrote = "held"
    /\ Len(array) >= 2

\* C4: an object passed to save or load is no object of the store, and a
\* write to it after the call leaves what getAll and findById return as it
\* was.
InputIsolation ==
    (pc = "returned" /\ last.op \in {"save", "load"}) =>
        /\ Range(args) \cap StoreHandles = {}
        /\ last.wrote = "args" => ~last.disturbed

InputIsolationWitness ==
    /\ last.op = "save"
    /\ last.wrote = "args"
    /\ last.changed
    /\ Len(array) >= 2

\* C5: what a matcher does to the record it is handed during find leaves
\* what getAll and findById return as it was.
MatcherIsolation == last.op = "find" => ~last.disturbed

\* C6: deleteById(id) for a stored id leaves the id absent from findById and
\* from getAll, lowers count() by exactly one and leaves the other records
\* in their order.
DeleteIntegrity ==
    [][\A id \in IdValues :
         (DeleteCall(<<id>>) /\ id \in DOMAIN cache) =>
            /\ id \notin DOMAIN cache'
            /\ id \notin {objs'[array'[i]].id : i \in DOMAIN array'}
            /\ count(array') = count(array) - 1
            /\ ValuesOf(objs', array') =
                 SelectSeq(ValuesOf(objs, array), LAMBDA r : r.id # id)
      ]_vars

\* The requested identifiers that are keys of c, each once, in request order.
RECURSIVE FirstStored(_, _)
FirstStored(ids, c) ==
    IF ids = <<>> THEN <<>>
    ELSE IF Head(ids) \in DOMAIN c
         THEN <<Head(ids)>> \o
              FirstStored(Tail(ids), [k \in (DOMAIN c) \ {Head(ids)} |-> c[k]])
         ELSE FirstStored(Tail(ids), c)

\* C7: deleteById(ids...) returns one record per requested identifier that
\* was stored, equal to the value most recently saved for it, in request
\* order; a call with no identifiers returns nothing and changes nothing.
DeleteReturnsLastSaved ==
    [][\A ids \in IdLists :
         DeleteCall(ids) =>
            /\ ValuesOf(objs', held') =
                 LET found == FirstStored(ids, cache)
                 IN  [i \in DOMAIN found |-> saved[found[i]]]
            /\ ids = <<>> => (cache' = cache /\ array' = array /\ objs' = objs)
      ]_vars

\* C8: findById(ids...) returns the stored record of each requested
\* identifier that is stored, in request order, and skips the others.
FindByIdInRequestOrder ==
    (last.op = "findById" /\ last.wrote = "none") =>
        LET found == SelectSeq(last.req, LAMBDA id : id \in DOMAIN cache)
        IN  /\ ValuesOf(objs, held) = [i \in DOMAIN found |-> objs[cache[found[i]]]]
            /\ Len(held) <= Len(last.req)
            /\ ~last.changed

FindByIdWitness ==
    /\ last.op = "findById"
    /\ last.wrote = "none"
    /\ last.req = <<"b", "a">>
    /\ Len(held) = 2
    /\ IdsOf(objs, array) = <<"a", "b">>

\* C9: saving a record whose identifier is not stored raises count() by one
\* and makes the record the last of getAll(), every other record keeping its
\* value and position.
InsertAppends ==
    [][\A m \in Models :
         (SaveCall("save", <<m>>) /\ m.id \notin DOMAIN cache) =>
            /\ count(array') = count(array) + 1
            /\ ValuesOf(objs', array') = Append(ValuesOf(objs, array), m)
      ]_vars

\* C10: save(records...) returns one record per input, in input order, each
\* equal to its input; save() returns nothing and changes nothing.
SaveReturnsInputs ==
    (last.op = "save" /\ last.wrote = "none") =>
        /\ ValuesOf(objs, held) = ValuesOf(objs, args)
        /\ IdsOf(objs, held) = last.req
        /\ last.req = <<>> => ~last.changed

SaveReturnsInputsWitness ==
    /\ last.op = "save"
    /\ last.wrote = "none"
    /\ Len(held) = 2
    /\ objs[held[1]] # objs[held[2]]

Distinct(s) == \A i, j \in DOMAIN s : s[i] = s[j] => i = j

\* C11: when schema.id.next returns identifiers that are not stored and
\* pairwise distinct, create(p1..pn) raises count() by n, appends the new
\* records in input order, and returns each partial's attributes with its
\* identifier, in input order.
CreateAppends ==
    [][\A k \in 0..MaxBatch :
         \A partials \in [1..k -> Partials], ids \in [1..k -> IdValues] :
            (/\ CreateCall(partials, ids)
             /\ Distinct(ids)
             /\ Range(ids) \cap (DOMAIN cache \cup Ids(array)) = {}) =>
               LET made == [i \in 1..k |-> [id |-> ids[i], name |-> partials[i]]]
               IN  /\ count(array') = count(array) + k
                   /\ ValuesOf(objs', array') = ValuesOf(objs, array) \o made
                   /\ ValuesOf(objs', held') = made
      ]_vars

\* C12: for every store state and every argument list, load leaves the
\* store in the state save leaves it in and returns the list save returns.
LoadIsSave ==
    [][\A models \in ModelLists :
         (last'.op = "load" /\ SaveCall("load", models)) =>
            LET in == AllocAll(objs, models)
                r == save(in.objs, cache, array, in.refs)
                n == Compact(r.objs, r.cache, r.array, r.out, in.refs, <<>>)
            IN  /\ objs' = n.objs
                /\ cache' = n.cache
                /\ array' = n.array
                /\ held' = n.held
      ]_vars

LoadIsSaveWitness ==
    /\ last.op = "load"
    /\ last.wrote = "none"
    /\ Len(held) = 2
    /\ last.hit # {}
    /\ last.changed

\* C13: new(partial) leaves count(), getAll() and findById as they were, and
\* returns the supplied attributes with the identifier, an attribute that
\* was not supplied being absent.
NewIsPure ==
    [][\A p \in Partials \cup {Absent}, id \in IdValues :
         (last'.op = "new" /\ NewCall(p, id)) =>
            /\ View(objs', cache', array') = View(objs, cache, array)
            /\ count(array') = count(array)
            /\ ValuesOf(objs', held') = <<[id |-> id, name |-> p]>>
            /\ Range(held') \cap (Range(array') \cup Range(cache')) = {}
      ]_vars

NewIsPureWitness ==
    /\ last.op = "new"
    /\ last.wrote = "none"
    /\ Len(array) >= 2
    /\ objs[held[1]].name = Absent
    /\ last.hit # {}

\* C14: in every state count() is the length of getAll() and the number of
\* distinct identifiers for which findById returns a record.
CountAgrees ==
    /\ count(array) = Len(getAll(objs, array).out)
    /\ count(array) =
          Cardinality({id \in IdValues :
                          findById(objs, cache, <<id>>).out # <<>>})

\* The log entries of one kind, and the positions they are about.
EventsOf(kind) == SelectSeq(last.calls, LAMBDA e : e.ev = kind)
IndexesOf(events) == [i \in DOMAIN events |-> events[i].index]

\* The results of the find that is running or has just returned.
Results == IF pc = "loop" THEN context.results ELSE held

\* C15: find calls the matcher once per visited record, and its results are
\* the visited records for which the matcher returned true, in visit order.
MatcherDecidesResults ==
    last.op = "find" =>
        LET matched == SelectSeq(EventsOf("matcher"), LAMBDA e : e.ret)
        IN  /\ IndexesOf(EventsOf("matcher")) = IndexesOf(EventsOf("visit"))
            /\ ValuesOf(objs, Results) =
                  [i \in DOMAIN matched |-> objs[array[matched[i].index + 1]]]

MatcherDecidesResultsWitness ==
    /\ pc = "returned"
    /\ last.op = "find"
    /\ matcher = "jane"
    /\ Len(EventsOf("visit")) = 3
    /\ Len(held) = 2
    /\ ~EventsOf("matcher")[2].ret

\* C16: the stopper is called once per visited record, right after that
\* record's matcher call whatever the matcher returned, and is shown the
\* results with the record already appended when it matched; once the
\* stopper has returned true nothing more is visited or called.
StopperAfterMatcher ==
    last.op = "find" =>
        LET c == last.calls
        IN  /\ IndexesOf(EventsOf("stopper")) = IndexesOf(EventsOf("visit"))
            /\ \A i \in DOMAIN c :
                  c[i].ev = "stopper" =>
                    /\ i > 1
                    /\ c[i - 1].ev = "matcher"
                    /\ c[i - 1].index = c[i].index
                    /\ c[i].results =
                          Cardinality({j \in 1..i : c[j].ev = "matcher" /\ c[j].ret})
                    /\ c[i].ret => (i = Len(c) /\ pc = "returned")

StopperAfterMatcherWitness ==
    /\ pc = "returned"
    /\ last.op = "find"
    /\ stopper = "found"
    /\ Len(array) = 3
    /\ Len(last.calls) = 6
    /\ ~last.calls[2].ret
    /\ ~last.calls[3].ret
    /\ last.calls[6].ret

\* C17: with callbacks that write neither context.index nor the store, a
\* scan visits positions strictly monotonically in its direction, each at
\* most once; a forward scan without options whose stopper never returns
\* true visits 0..length-1, each once, in increasing order.
ScanMonotonic ==
    last.op = "find" =>
        LET v == IndexesOf(EventsOf("visit"))
        IN  /\ \A i \in 1..(Len(v) - 1) :
                  IF Reverse(options) THEN v[i + 1] < v[i] ELSE v[i + 1] > v[i]
            /\ Distinct(v)
            /\ (pc = "returned" /\ DOMAIN options = {} /\ stopper = "never") =>
                  v = [i \in 1..Len(array) |-> i - 1]

ScanMonotonicWitness ==
    /\ pc = "returned"
    /\ last.op = "find"
    /\ DOMAIN options = {}
    /\ stopper = "never"
    /\ IndexesOf(EventsOf("visit")) = <<0, 1, 2>>

ScanMonotonicReverseWitness ==
    /\ pc = "returned"
    /\ last.op = "find"
    /\ Reverse(options)
    /\ IndexesOf(EventsOf("visit")) = <<2, 1>>

\* C18: a reverse find whose stopper never returns true visits every
\* position from its start point down to and including 0: all of
\* length-1..0 when no startingIndex is given, and the one record of a
\* one-record collection.
ReverseReachesZero ==
    (/\ pc = "returned"
     /\ last.op = "find"
     /\ Reverse(options)
     /\ stopper = "never"
     /\ array # <<>>) =>
        LET v == IndexesOf(EventsOf("visit"))
            start == LoopStart(options, array)
        IN  /\ v = [i \in 1..(start + 1) |-> start - (i - 1)]
            /\ "startingIndex" \notin DOMAIN options => start = Len(array) - 1

\* C19: on a non-empty collection the first position a scan visits is the
\* supplied startingIndex clamped into 0..length-1, in both directions and
\* for every supplied value (0, negative and past the end included); with no
\* startingIndex it is 0 for a forward scan and length-1 for a reverse one.
\* (Stated for the scans that visit anything, so that it does not rest on
\* C18.)
FirstVisitClamped ==
    (last.op = "find" /\ array # <<>>) =>
        LET v == IndexesOf(EventsOf("visit"))
            expected ==
                IF "startingIndex" \in DOMAIN options
                THEN Max(0, Min(Len(array) - 1, options.startingIndex))
                ELSE IF Reverse(options) THEN Len(array) - 1 ELSE 0
        IN  v # <<>> => v[1] = expected

\* C20: on an empty collection find makes no iteration, whatever the
\* options: the loop condition fails at once, neither callback is called
\* and the result is empty.
EmptyScansNothing ==
    (last.op = "find" /\ array = <<>>) =>
        /\ pc = "loop" => ~LoopCondition(options, context, array)
        /\ last.calls = <<>>
        /\ Results = <<>>

EmptyScansNothingWitness ==
    /\ pc = "returned"
    /\ last.op = "find"
    /\ array = <<>>
    /\ Reverse(options)
    /\ "startingIndex" \in DOMAIN options
    /\ options.startingIndex > 0
    /\ matcher = "all"

\* C21: context.extra starts a find as a copy of options.extra, an empty
\* object when none is given, and whatever the callbacks write to
\* context.extra, the options object the caller passed is afterwards equal
\* to what it was when the call was made.
ExtraIsACopy ==
    last.op = "find" =>
        /\ options = last.given
        /\ (pc = "loop" /\ last.calls = <<>>) =>
              /\ ~context.shared
              /\ context.extra = IF "extra" \in DOMAIN options
                                 THEN options.extra ELSE <<>>

\* The counting matcher has counted three records and find has returned.
ExtraIsACopyWitness ==
    /\ pc = "returned"
    /\ last.op = "find"
    /\ matcher = "third"
    /\ Len(held) = 1
    /\ \E i \in DOMAIN last.calls :
          last.calls[i].ev = "matcher" /\ last.calls[i].ret

\* C22: with the storage unchanged, a second find given the same matcher,
\* the same stopper and the same options object returns results equal to
\* those of the first, also when the callbacks keep a counter in
\* context.extra.
FindIsDeterministic ==
    (pc = "returned" /\ last.op = "find" /\ last.again) =>
        ValuesOf(objs, held) = last.before

\* The counting matcher found its third record in both calls.
FindIsDeterministicWitness ==
    /\ pc = "returned"
    /\ last.op = "find"
    /\ last.again
    /\ matcher = "third"
    /\ stopper = "found"
    /\ Len(last.before) = 1
    /\ Len(held) = 1

\* The positions of the array whose record the counting matcher counts.
Qualifying == {i \in DOMAIN array : objs[array[i]].name = "Jane"}

\* C23: a forward find with the matcher that counts the qualifying records
\* in context.extra.numMatches, from 0, and returns true at 3, and the
\* stopper that returns true once there is a result, returns exactly the
\* third qualifying record in storage order, and nothing when fewer than
\* three records qualify.
ThirdHit ==
    (/\ pc = "returned"
     /\ last.op = "find"
     /\ matcher = "third"
     /\ stopper = "found"
     /\ ~Reverse(options)) =>
        IF Cardinality(Qualifying) >= 3
        THEN LET i == CHOOSE k \in Qualifying :
                          Cardinality({j \in Qualifying : j <= k}) = 3
             IN  ValuesOf(objs, held) = <<objs[array[i]]>>
        ELSE held = <<>>

ThirdHitWitness ==
    /\ pc = "returned"
    /\ last.op = "find"
    /\ ~last.again
    /\ matcher = "third"
    /\ stopper = "found"
    /\ ~Reverse(options)
    /\ Cardinality(Qualifying) >= 3
    /\ Len(held) = 1

\* The records at positions from..to-1 of getAll().
Slice(from, to) == SubSeq(ValuesOf(objs, array), from + 1, to)

\* C24: the pagination of the README.  With the matcher
\* context.index < cursor + limit, the stopper
\* context.results.length === limit and the options { startingIndex: cursor },
\* for limit >= 1 and 0 <= cursor < count() the slice is the records at
\* positions cursor .. min(cursor + limit, count()) - 1; and the pages got
\* from cursor 0 by advancing the cursor by the slice length while
\* cursor + slice.length < count() add up to getAll().
PagesCoverGetAll ==
    (pc = "returned" /\ last.op = "find" /\ matcher = "page") =>
        /\ ~page.done =>
              ValuesOf(objs, held) =
                  Slice(page.cursor, Min(page.cursor + page.limit, count(array)))
        /\ (page.done /\ page.first = 0) =>
              page.pages = ValuesOf(objs, array)

\* Three pages of one record each have been read from a store of three.
PagesCoverGetAllWitness ==
    /\ pc = "returned"
    /\ page.done
    /\ page.first = 0
    /\ page.limit = 1
    /\ Len(page.pages) = 3

\* The names whose declaration has an object shape.
Accepted ==
    {registry.settings.schema[i].name :
        i \in {k \in DOMAIN registry.settings.schema :
                  IsObjectShape(registry.settings.schema[k].declared)}}

\* C25: once makeMemoryDB has built the registry, and whatever is then done
\* to the stores, a name is in the store map exactly when it is in the
\* shape map, and these names are the declared names whose declaration has
\* an object shape; the other declarations are in neither map.
RegistryNames ==
    registry.pc # "none" =>
        /\ DOMAIN registry.schema = DOMAIN registry.zod
        /\ DOMAIN registry.schema = Accepted

\* One declaration was kept and one dropped, and the kept store has been
\* written to.
RegistryNamesWitness ==
    /\ registry.pc = "returned"
    /\ Len(registry.settings.schema) = 2
    /\ Cardinality(Accepted) = 1
    /\ registry.calls > 0
    /\ \E name \in DOMAIN registry.schema : registry.schema[name].array # <<>>

\* The records the seeder created or loaded in the store called name, in
\* the order of its calls.
Seeded(name) ==
    LET InStore(e) == e.name = name
        es == SelectSeq(registry.log, InStore)
    IN  [i \in DOMAIN es |-> es[i].record]

\* getAll() of the store called name.
Listed(name) ==
    ValuesOf(registry.schema[name].objs, registry.schema[name].array)

\* C26: makeMemoryDB calls a supplied seeder exactly once, when every store
\* exists and before it returns; when it returns, the records the seeder
\* created or loaded in a store (for an identifier it wrote more than once,
\* the last of them) are in that store in the order of the seeder's calls;
\* and without a seeder every store is empty.
SeederSeedsOnce ==
    /\ registry.pc = "seeder" =>
          /\ registry.seeded = 1
          /\ DOMAIN registry.schema = Accepted
    /\ (registry.pc = "returned" /\ registry.calls = 0) =>
          /\ registry.seeded = IF registry.settings.seeder THEN 1 ELSE 0
          /\ ~registry.settings.seeder =>
                \A name \in DOMAIN registry.schema :
                    registry.schema[name] = EmptyStore
          /\ \A name \in DOMAIN registry.schema :
                LET lg == Seeded(name)
                    got == Listed(name)
                    Final(i) == \A j \in (i + 1)..Len(lg) : lg[j].id # lg[i].id
                IN  /\ \A i \in DOMAIN lg :
                          Final(i) => \E p \in DOMAIN got : got[p] = lg[i]
                    /\ \A i, j \in DOMAIN lg :
                          (i < j /\ Final(i) /\ Final(j)) =>
                              \E p, q \in DOMAIN got :
                                  p < q /\ got[p] = lg[i] /\ got[q] = lg[j]

\* save(r1); ...; save(rn) from the store st, the values returned being
\* collected in st.out.
RECURSIVE SavedOneByOne(_, _)
SavedOneByOne(st, models) ==
    IF models = <<>> THEN st
    ELSE LET in == Alloc(st.objs, Head(models))
             r == save(in.objs, st.cache, st.array, <<in.ref>>)
         IN  SavedOneByOne([objs |-> r.objs, cache |-> r.cache,
                            array |-> r.array,
                            out |-> st.out \o ValuesOf(r.objs, r.out)],
                           Tail(models))

\* deleteById(i1); ...; deleteById(in) from the store st.
RECURSIVE DeletedOneByOne(_, _)
DeletedOneByOne(st, ids) ==
    IF ids = <<>> THEN st
    ELSE LET r == deleteById(st.objs, st.cache, st.array, <<Head(ids)>>)
         IN  DeletedOneByOne([objs |-> st.objs, cache |-> r.cache,
                              array |-> r.array,
                              out |-> st.out \o ValuesOf(st.objs, r.out)],
                             Tail(ids))

\* C27: a batch save leaves the store holding, and returns, what the single
\* saves of its records made in order leave and return, and a batch
\* deleteById what the single deletes of its identifiers do, batches that
\* repeat an identifier included.
BatchIsOneByOne ==
    [][(pc = "ready" /\ last'.op \in {"save", "deleteById"}) =>
          LET st == [objs |-> objs, cache |-> cache, array |-> array,
                     out |-> <<>>]
              one == IF last'.op = "save"
                     THEN SavedOneByOne(st, ValuesOf(objs', args'))
                     ELSE DeletedOneByOne(st, last'.req)
          IN  /\ View(objs', cache', array') =
                    View(one.objs, one.cache, one.array)
              /\ ValuesOf(objs', held') = one.out]_vars

\* A batch that names one identifier twice has deleted the record and the
\* two entries the array held for it.
BatchIsOneByOneWitness ==
    /\ pc = "returned"
    /\ last.op = "deleteById"
    /\ Len(last.req) = 2
    /\ last.req[1] = last.req[2]
    /\ held # <<>>
    /\ last.changed
    /\ array = <<>>

\* C28: findById and deleteById called with identifiers none of which is
\* stored (findById finds none of them) return an empty list and leave the
\* mapping, the sequence and count() as they were.
NotFoundIsNoOp ==
    (/\ pc = "returned"
     /\ last.op \in {"findById", "deleteById"}
     /\ last.wrote = "none"
     /\ last.hit = {}) =>
        /\ held = <<>>
        /\ ~last.changed

\* C29: context.count is the length of the collection when find was
\* called, and find visits no more than context.count records, also when a
\* callback saves records into the store during the scan.
ScanIsFrozen ==
    (pc = "loop" /\ last.op = "find") =>
        Len(EventsOf("visit")) <= context.count

\* C30: in every state, for every identifier findById finds, getAll() holds
\* a record with that identifier, and every record of getAll() with that
\* identifier equals the one findById returns: after an update both show
\* the new attributes.
LookupAgreesWithIteration ==
    \A id \in DOMAIN cache :
        /\ \E i \in DOMAIN array : objs[array[i]].id = id
        /\ \A i \in DOMAIN array :
              objs[array[i]].id = id => objs[array[i]] = objs[cache[id]]

\* C31: after save(r) for an identifier that was stored, the stored record
\* is r and nothing else: findById returns r, and getAll() holds no record
\* of that identifier with the attributes of the previous version.
UpdateReplaces ==
    (pc = "returned" /\ last.op = "save" /\ last.wrote = "none") =>
        \A id \in last.hit :
            /\ objs[cache[id]] = saved[id]
            /\ \A i \in DOMAIN array :
                  objs[array[i]].id = id => objs[array[i]] = saved[id]

\* C32: getAll, findById and find with callbacks that do not write leave
\* what the mapping and the sequence hold as it was (count is the length of
\* the sequence), and of two getAll() calls in a row the second returns
\* values equal to those of the first in an array and in records that are
\* neither those of the first nor those of the store.
ReadsArePure ==
    /\ (last.op \in {"getAll", "findById"} /\ last.wrote = "none") =>
          ~last.changed
    /\ (last.op = "find" /\ matcher \in Matchers \cup {"third"}) =>
          ~last.changed /\ ~last.disturbed
    /\ (pc = "returned" /\ last.op = "getAll" /\ last.again) =>
          /\ heldFresh
          /\ ValuesOf(objs, held) = ValuesOf(objs, args)
          /\ ValuesOf(objs, held) = ValuesOf(objs, array)
          /\ Range(held) \cap Range(args) = {}
          /\ Range(held) \cap StoreHandles = {}
          /\ Range(args) \cap StoreHandles = {}

\* getAll() has been called twice in a row on a store of two records.
ReadsArePureWitness ==
    /\ pc = "returned"
    /\ last.op = "getAll"
    /\ last.again
    /\ Len(held) = 2
    /\ Len(args) = 2

\* C33: save(r) followed by save(r) leaves count(), getAll() and what
\* findById returns as the first save(r) left them.
SaveIsIdempotent ==
    (pc = "returned" /\ last.op = "save" /\ last.again) =>
        View(objs, cache, array) = last.before

\* C34: for a record r whose identifier is not stored (findById does not
\* find it), save(r) followed by deleteById of r's identifier returns [r]
\* and leaves getAll(), count() and what findById returns as they were
\* before the save.
SaveDeleteRoundTrip ==
    (/\ pc = "returned"
     /\ last.op = "save, deleteById"
     /\ last.wrote = "none"
     /\ last.hit = {}) =>
        /\ ValuesOf(objs, held) = ValuesOf(objs, args)
        /\ ~last.changed

\* C35: when an identifier has been deleted and a record r with that
\* identifier is saved again, r is the last record of getAll() and the only
\* one with that identifier, and findById finds it.
ReinsertedAtEnd ==
    (pc = "returned" /\ last.op = "deleteById, save" /\ last.wrote = "none") =>
        LET id == last.req[1]
        IN  /\ id \in DOMAIN cache
            /\ objs[cache[id]] = saved[id]
            /\ array # <<>>
            /\ objs[array[Len(array)]] = saved[id]
            /\ Cardinality({i \in DOMAIN array : objs[array[i]].id = id}) = 1

\* C36: a save, load, create, deleteById or find on the store of one entity
\* leaves the records, the order and the count of every other store of the
\* registry as they were, also when both stores hold the same identifier.
StoresAreIndependent ==
    [][registry.pc # "none" =>
          \A n \in DOMAIN registry.schema :
              n # registry'.on => registry'.schema[n] = registry.schema[n]]_vars

\* Two stores hold different records under one identifier.
StoresAreIndependentWitness ==
    /\ registry.pc = "returned"
    /\ registry.calls > 0
    /\ \E n1, n2 \in DOMAIN registry.schema :
          /\ n1 # n2
          /\ registry.on = n2
          /\ \E id \in DOMAIN registry.schema[n1].cache :
                /\ id \in DOMAIN registry.schema[n2].cache
                /\ Listed(n1) # <<>>
                /\ Listed(n2) # <<>>
                /\ Listed(n1) # Listed(n2)

\* C37: with callbacks that write neither the store nor context.index,
\* every find returns, whatever the options and whether or not the stopper
\* ever returns true, and it makes no more iterations than the collection
\* has records.
FindTerminates ==
    /\ [](last.op = "find" => Len(EventsOf("visit")) <= Len(array))
    /\ [][pc = "loop" /\ pc' = "loop" =>
              Len(EventsOf("visit")') = Len(EventsOf("visit")) + 1]_vars
    /\ (pc = "loop") ~> (pc = "returned")

\* A find whose stopper never returns true has visited every record of a
\* full collection and returned.
FindTerminatesWitness ==
    /\ pc = "returned"
    /\ last.op = "find"
    /\ stopper = "never"
    /\ Len(array) = MaxLen
    /\ Len(EventsOf("visit")) = Len(array)

\* C38: whatever the identifier, one that names a property of the container
\* included, findById returns a record only of an identifier that has been
\* saved, and after the save of an identifier that was not stored the record
\* is in the mapping and in the sequence.
MembershipIsWhatWasSaved ==
    /\ (last.op = "findById" /\ last.wrote = "none") =>
           Range(IdsOf(objs, held)) \subseteq DOMAIN saved
    /\ (last.op = "save" /\ last.wrote = "none") =>
           \A id \in Range(last.req) \ last.hit :
               /\ id \in DOMAIN cache
               /\ id \in Ids(array)

====
